---- MODULE Spec2Model ----
(***************************************************************************)
(* GRANDPA voting rules of node/service/src/grandpa_support.rs:            *)
(*   PauseAfterBlockFor          (the pause rule)                          *)
(*   ApprovalCheckingDiagnostic  (the diagnostic rule)                     *)
(* and the backward walk find_target both of them use.                     *)
(***************************************************************************)
EXTENDS Integers, Sequences, FiniteSets, TLC

\* ------------------------------------------------------------------ bounds
\* Highest block number of the header store.
MaxHeight == 53
\* The store holds a main chain 0..MaxHeight and a fork that leaves it after
\* block ForkAt.
ForkAt == 1
\* Hashes of fork headers are offset by ForkOffset from the main chain's.
ForkOffset == 100
\* The header whose backend lookup may fail is the main-chain block FaultHeight.
FaultHeight == 2
\* find_target is also handed headers that name as their parent a stored block
\* whose number is GapStep lower.
GapStep == 2
\* PauseAfterBlockFor(pause_at, pause_for) is constructed with values up to these.
MaxPauseAt == 3
MaxPauseFor == 2
\* Block numbers of the headers handed to the pause rule: 0..MaxPauseNumber.
MaxPauseNumber == 6

\* The diagnostic rule is handed headers with numbers 0..DiagSpan and
\* DIAGNOSTIC_GRANDPA_DELAY..DIAGNOSTIC_GRANDPA_DELAY + DiagSpan.
DiagSpan == 3
\* Two interleaved calls of the diagnostic rule take a base with number
\* 0..PairSpan and a head 1..PairSpan + 2 blocks past the delay.
PairSpan == 0

\* ------------------------------------------------------- program constants
DIAGNOSTIC_GRANDPA_DELAY == 50

VARIABLES
    pause_at,       \* PauseAfterBlockFor.0
    pause_for,      \* PauseAfterBlockFor.1
    fault,          \* what the header backend answers for one stored header
    p_pc,           \* pause rule call: "idle", "returned", "panicked"
    p_base,         \* arguments of the last pause rule call
    p_best,
    p_cur,
    p_ret,          \* its result
    p_lookups,      \* backend.header calls it made
    p_snap,         \* an earlier pause rule call, as an observer noted it
    finalized,      \* the last finalized header (the next round's base)
    f_pc,           \* find_target call: "idle", "returned", "panicked"
    f_target_number,\* its arguments
    f_header,
    f_out,          \* its result and the backend lookups it made
    d_pc,           \* diagnostic rule call c: "idle", "created", "awaiting",
                    \*   "done", "panicked"
    d_base,         \* its arguments
    d_best,
    d_cur,
    d_metric,       \* whether self.checking_lag is Some(histogram)
    d_target,       \* actual_vote_target
    d_slot,         \* the call's oneshot channel
    overseer,       \* ApprovedAncestor messages sent and not yet handled
    d_lag,          \* approval_checking_subsystem_lag
    d_observed,     \* what the call recorded in the histogram
    d_ret           \* what the future resolved to

pvars == <<pause_at, pause_for, p_pc, p_base, p_best, p_cur, p_ret,
           p_lookups, p_snap, finalized>>
fvars == <<f_pc, f_target_number, f_header, f_out>>
dvars == <<d_pc, d_base, d_best, d_cur, d_metric, d_target, d_slot, overseer,
           d_lag, d_observed, d_ret>>
vars == <<fault, pvars, fvars, dvars>>

\* The two calls of the diagnostic rule that may be in progress at once.
Calls == {"a", "b"}

\* ------------------------------------------------------------ header store
MainHash(n) == n + 1
ForkHash(n) == ForkOffset + n + 1
GapHash(n) == 2 * ForkOffset + n + 1

Hashes == {MainHash(n) : n \in 0..MaxHeight}
            \cup {ForkHash(n) : n \in (ForkAt + 1)..MaxHeight}

number(h) ==
    IF h > 2 * ForkOffset THEN h - 2 * ForkOffset - 1
    ELSE IF h > ForkOffset THEN h - ForkOffset - 1 ELSE h - 1

parent_hash(h) ==
    IF h > 2 * ForkOffset THEN MainHash(number(h) - GapStep)
    ELSE IF h > ForkOffset
    THEN IF number(h) = ForkAt + 1 THEN MainHash(ForkAt) ELSE h - 1
    ELSE h - 1

Header(h) == [hash |-> h, number |-> number(h), parent_hash |-> parent_hash(h)]

Genesis == Header(MainHash(0))

NoFault == [hash |-> 0, kind |-> "ok"]

Faults == {NoFault}
            \cup {[hash |-> MainHash(FaultHeight), kind |-> k] : k \in {"absent", "err"}}

\* backend.header(BlockId::Hash(h)): "ok" is Ok(Some(header)), "absent" is
\* Ok(None), "err" is Err(_).
backend_header(h) ==
    IF h \notin Hashes THEN "absent"
    ELSE IF fault.hash = h THEN fault.kind
    ELSE "ok"

\* --------------------------------------------------------- result encoding
None == [tag |-> "None", hash |-> 0, number |-> 0]
Some(h, n) == [tag |-> "Some", hash |-> h, number |-> n]
Panic == [tag |-> "panic", hash |-> 0, number |-> 0]

Outcome(r, k) == [res |-> r, lookups |-> k]

\* A oneshot channel: "none" before it is created, "open" while the sender is
\* alive and has sent nothing, "sent" with the Option sent, "closed" once the
\* sender is dropped unused.
Slot(st, v) == [state |-> st, value |-> v]

\* No pause rule call noted.
NoSnap ==
    [taken |-> FALSE, base |-> Genesis, best |-> Genesis, cur |-> Genesis,
     pc |-> "idle", res |-> None, repeated |-> FALSE]

\* No call of the pause rule, of find_target, of the diagnostic rule yet.
PauseIdle ==
    /\ p_pc = "idle"
    /\ p_base = Genesis
    /\ p_best = Genesis
    /\ p_cur = Genesis
    /\ p_ret = None
    /\ p_lookups = 0
    /\ p_snap = NoSnap

ResolveIdle ==
    /\ f_pc = "idle"
    /\ f_out = Outcome(None, 0)

DiagIdle ==
    /\ d_pc = [c \in Calls |-> "idle"]
    /\ d_base = [c \in Calls |-> Genesis]
    /\ d_best = [c \in Calls |-> Genesis]
    /\ d_cur = [c \in Calls |-> Genesis]
    /\ d_metric = [c \in Calls |-> FALSE]
    /\ d_target = [c \in Calls |-> None]
    /\ d_slot = [c \in Calls |-> Slot("none", None)]
    /\ overseer = {}
    /\ d_lag = [c \in Calls |-> [hi |-> 0, lo |-> 0]]
    /\ d_observed = [c \in Calls |-> <<>>]
    /\ d_ret = [c \in Calls |-> None]

\* ------------------------------------------------------------- find_target
\* The loop has not returned yet.
Running == [tag |-> "running", hash |-> 0, number |-> 0]

\* A faulty variant of the loop's body: the parent is looked up before the
\* header's number is compared with target_number.
find_body_lookup_first(target_number, st) ==
    IF st.ret # Running THEN st
    ELSE LET h == st.target_header.parent_hash
             a == backend_header(h)
         IN  IF a = "err"
             THEN [st EXCEPT !.ret = None, !.lookups = @ + 1]
             ELSE IF a = "absent"
             THEN [st EXCEPT !.ret = Panic, !.lookups = @ + 1]
             ELSE IF number(h) < target_number
             THEN [st EXCEPT !.ret = Panic, !.lookups = @ + 1]
             ELSE [target_hash |-> h, target_header |-> Header(h),
                   lookups |-> st.lookups + 1,
                   ret |-> IF number(h) = target_number
                           THEN Some(h, target_number) ELSE Running]

\* One pass through the loop's body (lines 195-212) from the loop state st;
\* a loop that has returned or panicked stays as it is.
find_body(target_number, st) ==
    IF st.ret # Running THEN st
    ELSE IF st.target_header.number < target_number
    THEN [st EXCEPT !.ret = Panic]
    ELSE IF st.target_header.number = target_number
    THEN [st EXCEPT !.ret = Some(st.target_hash, target_number)]
    ELSE LET h == st.target_header.parent_hash
             a == backend_header(h)
         IN  IF a = "err"
             THEN [st EXCEPT !.ret = None, !.lookups = @ + 1]
             ELSE IF a = "absent"
             THEN [st EXCEPT !.ret = Panic, !.lookups = @ + 1]
             ELSE [target_hash |-> h, target_header |-> Header(h),
                   lookups |-> st.lookups + 1, ret |-> Running]

\* Up to n passes through the loop's body.
RECURSIVE find_loop(_, _, _)
find_loop(target_number, st, n) ==
    IF st.ret # Running \/ n = 0 THEN st
    ELSE IF n = 1 THEN find_body(target_number, st)
    ELSE find_loop(target_number, find_loop(target_number, st, n \div 2), n - n \div 2)

\* A faulty variant: the hash returned is the one the walk started from.
find_target_stale_hash(target_number, current_header) ==
    LET st == find_loop(target_number,
                        [target_hash |-> current_header.hash,
                         target_header |-> current_header,
                         lookups |-> 0, ret |-> Running],
                        MaxHeight + 2)
    IN  Outcome(IF st.ret.tag = "Some"
                THEN Some(current_header.hash, st.ret.number) ELSE st.ret,
                st.lookups)

\* The numbers of the store's headers are at most MaxHeight and get smaller
\* along the walk, so the loop returns within MaxHeight + 2 passes.
find_target(target_number, current_header) ==
    LET st == find_loop(target_number,
                        [target_hash |-> current_header.hash,
                         target_header |-> current_header,
                         lookups |-> 0, ret |-> Running],
                        MaxHeight + 2)
    IN  Outcome(st.ret, st.lookups)

\* --------------------------------------------------------------- pause rule
\* Faulty variants of the pause rule, used to show that the properties below
\* depend on the rule's conditions.
\* ... restricts already at the pause height (>= for >).
restrict_vote_at_pause_height(base, best_target, current_target) ==
    IF current_target.number >= pause_at
    THEN IF best_target.number > pause_at + pause_for
         THEN Outcome(None, 0)
         ELSE IF base.number >= pause_at
         THEN Outcome(Some(base.hash, base.number), 0)
         ELSE find_target(pause_at, current_target)
    ELSE Outcome(None, 0)

\* ... keeps returning a finalized pause block before looking at the expiry.
restrict_vote_base_before_expiry(base, best_target, current_target) ==
    IF current_target.number > pause_at
    THEN IF base.number >= pause_at
         THEN Outcome(Some(base.hash, base.number), 0)
         ELSE IF best_target.number > pause_at + pause_for
         THEN Outcome(None, 0)
         ELSE find_target(pause_at, current_target)
    ELSE Outcome(None, 0)

\* ... ends the pause one block early (>= for > in the expiry test).
restrict_vote_exclusive_window(base, best_target, current_target) ==
    IF current_target.number > pause_at
    THEN IF best_target.number >= pause_at + pause_for
         THEN Outcome(None, 0)
         ELSE IF base.number >= pause_at
         THEN Outcome(Some(base.hash, base.number), 0)
         ELSE find_target(pause_at, current_target)
    ELSE Outcome(None, 0)

\* ... votes for the proposed target itself while the pause block is not final.
restrict_vote_no_walk(base, best_target, current_target) ==
    IF current_target.number > pause_at
    THEN IF best_target.number > pause_at + pause_for
         THEN Outcome(None, 0)
         ELSE IF base.number >= pause_at
         THEN Outcome(Some(base.hash, base.number), 0)
         ELSE Outcome(Some(current_target.hash, current_target.number), 0)
    ELSE Outcome(None, 0)

\* ... returns the chain head where it should return the finalized pause block.
restrict_vote_best_for_base(base, best_target, current_target) ==
    IF current_target.number > pause_at
    THEN IF best_target.number > pause_at + pause_for
         THEN Outcome(None, 0)
         ELSE IF base.number >= pause_at
         THEN Outcome(Some(best_target.hash, best_target.number), 0)
         ELSE find_target(pause_at, current_target)
    ELSE Outcome(None, 0)

\* ... keeps the override it returned last and returns
\* it again while the pause is on.
restrict_vote_cached(base, best_target, current_target) ==
    IF /\ p_pc = "returned"
       /\ p_ret.tag = "Some"
       /\ current_target.number > pause_at
       /\ best_target.number <= pause_at + pause_for
    THEN Outcome(p_ret, 0)
    ELSE IF current_target.number > pause_at
    THEN IF best_target.number > pause_at + pause_for
         THEN Outcome(None, 0)
         ELSE IF base.number >= pause_at
         THEN Outcome(Some(base.hash, base.number), 0)
         ELSE find_target(pause_at, current_target)
    ELSE Outcome(None, 0)

\* restrict_vote's aux() (lines 215-235). The sum self.0 + self.1 is taken in
\* the integers: the values the rule is constructed with here keep it far
\* below the block number type's maximum.
PauseAfterBlockFor_restrict_vote(base, best_target, current_target) ==
    IF current_target.number > pause_at
    THEN IF best_target.number > pause_at + pause_for
         THEN Outcome(None, 0)
         ELSE IF base.number >= pause_at
         THEN Outcome(Some(base.hash, base.number), 0)
         ELSE find_target(pause_at, current_target)
    ELSE Outcome(None, 0)

PauseHeaders == {Header(h) : h \in {x \in Hashes : number(x) <= MaxPauseNumber}}

\* The hash of the header with number n on the parent path of header h of the
\* store (h's own hash when n is h's number; 0 when the path has no such header).
RECURSIVE NthParent(_, _)
NthParent(h, k) ==
    IF h = 0 \/ k = 0 THEN h
    ELSE IF k = 1 THEN parent_hash(h)
    ELSE NthParent(NthParent(h, k \div 2), k - k \div 2)

AncestorAt(h, n) ==
    IF h > 2 * ForkOffset
    THEN IF number(h) = n THEN h
         ELSE IF number(h) - GapStep >= n /\ parent_hash(h) \in Hashes
         THEN NthParent(parent_hash(h), number(h) - GapStep - n)
         ELSE 0
    ELSE IF h \notin Hashes \/ number(h) < n THEN 0
    ELSE NthParent(h, number(h) - n)

\* The round bounds the finality gadget hands to a rule: base is the last
\* finalized block, current_target a descendant of it (or base itself) and
\* best_target a descendant of current_target (or current_target itself).
RoundBounds(base, best_target, current_target) ==
    /\ AncestorAt(current_target.hash, base.number) = base.hash
    /\ AncestorAt(best_target.hash, current_target.number) = current_target.hash

\* The rounds over the headers handed to the pause rule.
PauseRounds ==
    {r \in PauseHeaders \X PauseHeaders \X PauseHeaders : RoundBounds(r[1], r[2], r[3])}

InitPause ==
    /\ pause_at \in 0..MaxPauseAt
    /\ pause_for \in 0..MaxPauseFor
    /\ fault \in Faults
    /\ PauseIdle
    /\ ResolveIdle
    /\ f_target_number = 0
    /\ f_header = Genesis
    /\ DiagIdle
    /\ finalized = Genesis

\* One call of the pause rule, as the test makes them.
PauseCall ==
    \E r \in PauseRounds :
        LET base == r[1]
            best_target == r[2]
            current_target == r[3]
            o == PauseAfterBlockFor_restrict_vote(base, best_target, current_target)
        IN  /\ p_base' = base
            /\ p_best' = best_target
            /\ p_cur' = current_target
            /\ p_ret' = o.res
            /\ p_lookups' = o.lookups
            /\ p_pc' = IF o.res = Panic THEN "panicked" ELSE "returned"
            /\ UNCHANGED <<pause_at, pause_for, fault, finalized, p_snap, fvars, dvars>>

NextPause == PauseCall

SpecPause == InitPause /\ [][NextPause]_vars

\* A run of rounds: each round's base is the block the round before finalized,
\* the chain head never gets lower, and the round finalizes what the rule
\* yields: the override, or current_target when there is none.
InitRounds ==
    /\ pause_at \in 0..MaxPauseAt
    /\ pause_for \in 0..MaxPauseFor
    /\ fault \in Faults
    /\ PauseIdle
    /\ ResolveIdle
    /\ f_target_number = 0
    /\ f_header = Genesis
    /\ DiagIdle
    /\ finalized \in {h \in PauseHeaders : h.number < pause_at}

Round ==
    \E r \in PauseRounds :
        LET best_target == r[2]
            current_target == r[3]
            o == PauseAfterBlockFor_restrict_vote(finalized, best_target, current_target)
        IN  /\ p_pc # "panicked"
            /\ r[1] = finalized
            /\ best_target.number >= p_best.number
            /\ p_base' = finalized
            /\ p_best' = best_target
            /\ p_cur' = current_target
            /\ p_ret' = o.res
            /\ p_lookups' = o.lookups
            /\ p_pc' = IF o.res = Panic THEN "panicked" ELSE "returned"
            /\ finalized' = IF o.res.tag = "Some" THEN Header(o.res.hash)
                             ELSE IF o.res.tag = "None" THEN current_target
                             ELSE finalized
            /\ UNCHANGED <<pause_at, pause_for, fault, p_snap, fvars, dvars>>

NextRounds == Round

SpecRounds == InitRounds /\ [][NextRounds]_vars

\* Calls of the pause rule in any order, some of them repeated. An observer
\* notes one call and its result, and whether the call made last has the
\* arguments of the noted one.
MemoRounds ==
    {r \in PauseRounds : r[2] = r[3] /\ r[3].hash = MainHash(r[3].number)}

MemoCall ==
    \E r \in MemoRounds :
        LET o == PauseAfterBlockFor_restrict_vote(r[1], r[2], r[3])
        IN  /\ p_base' = r[1]
            /\ p_best' = r[2]
            /\ p_cur' = r[3]
            /\ p_ret' = o.res
            /\ p_lookups' = o.lookups
            /\ p_pc' = IF o.res = Panic THEN "panicked" ELSE "returned"
            /\ p_snap' = [p_snap EXCEPT !.repeated =
                            /\ p_snap.taken
                            /\ p_snap.base = r[1]
                            /\ p_snap.best = r[2]
                            /\ p_snap.cur = r[3]]
            /\ UNCHANGED <<pause_at, pause_for, fault, finalized, fvars, dvars>>

Observe ==
    /\ p_pc # "idle"
    /\ ~p_snap.taken
    /\ p_snap' = [taken |-> TRUE, base |-> p_base, best |-> p_best, cur |-> p_cur,
                  pc |-> p_pc, res |-> p_ret, repeated |-> FALSE]
    /\ UNCHANGED <<fault, pause_at, pause_for, p_pc, p_base, p_best, p_cur, p_ret,
                   p_lookups, finalized, fvars, dvars>>

NextMemo ==
    \/ MemoCall
    \/ Observe

SpecMemo == InitPause /\ [][NextMemo]_vars

\* ---------------------------------------------------------- diagnostic rule
Min(a, b) == IF a <= b THEN a ELSE b
Max(a, b) == IF a >= b THEN a ELSE b

\* u32::saturating_sub
saturating_sub(a, b) == IF a >= b THEN a - b ELSE 0

\* A BlockNumber is a u32. Block numbers are written as integers; a lag, which
\* may be the result of a wrapped subtraction, is written as the two 16-bit
\* halves of the u32.
U32Half == 2^16

u32(n) == [hi |-> n \div U32Half, lo |-> n % U32Half]

\* u32::wrapping_sub for block numbers a < b: 2^32 - (b - a), which is
\* (2^32 - 1) - (b - a - 1), taken half by half.
wrapping_sub(a, b) ==
    [hi |-> (U32Half - 1) - ((b - a - 1) \div U32Half),
     lo |-> (U32Half - 1) - ((b - a - 1) % U32Half)]

\* A faulty variant: the operands are taken the other way round.
u32_sub_swapped(a, b) ==
    IF b >= a THEN {[panic |-> FALSE, value |-> u32(b - a)]}
    ELSE {[panic |-> TRUE, value |-> u32(0)], [panic |-> FALSE, value |-> wrapping_sub(b, a)]}

\* The outcomes of the u32 subtraction a - b: the difference, and below zero
\* either a panic (overflow checks on) or the wrapped value (overflow checks
\* off).
u32_sub(a, b) ==
    IF a >= b THEN {[panic |-> FALSE, value |-> u32(a - b)]}
    ELSE {[panic |-> TRUE, value |-> u32(0)], [panic |-> FALSE, value |-> wrapping_sub(a, b)]}

\* A faulty variant: the target is not kept at or above base.
aux_no_base_floor(base, best_target, current_target) ==
    find_target(Min(saturating_sub(best_target.number, DIAGNOSTIC_GRANDPA_DELAY),
                    current_target.number),
                current_target)

\* aux(): the vote target.
ApprovalCheckingDiagnostic_aux(base, best_target, current_target) ==
    LET delayed == Min(saturating_sub(best_target.number, DIAGNOSTIC_GRANDPA_DELAY),
                       current_target.number)
        target_number == Max(delayed, base.number)
    IN  find_target(target_number, current_target)

DiagNumbers ==
    (0..DiagSpan) \cup (DIAGNOSTIC_GRANDPA_DELAY..(DIAGNOSTIC_GRANDPA_DELAY + DiagSpan))

DiagHeaders == {Header(h) : h \in {x \in Hashes : number(x) \in DiagNumbers}}

\* The rounds over the headers handed to the diagnostic rule.
DiagRounds ==
    {r \in DiagHeaders \X DiagHeaders \X DiagHeaders : RoundBounds(r[1], r[2], r[3])}

\* The rounds two interleaved calls are made with: current_target is
\* best_target, as in the test's calls.
PairBases == {h \in DiagHeaders : h.number <= PairSpan}

PairBests ==
    {Header(MainHash(DIAGNOSTIC_GRANDPA_DELAY + n)) : n \in 1..(PairSpan + 2)}

PairRounds ==
    {r \in {<<b, t, t>> : b \in PairBases, t \in PairBests} : RoundBounds(r[1], r[2], r[3])}

\* What the approval-checking subsystem may send for call c's request: None, or
\* Some((hash, n)) with n the base number, the number after it (when that is
\* not past the best one), the best number, or a number past the best one.
Replies(c) ==
    {None} \cup {Some(d_best[c].hash, n) :
                    n \in {d_base[c].number,
                           Min(d_base[c].number + 1, d_best[c].number),
                           d_best[c].number,
                           d_best[c].number + 1}}

\* restrict_vote up to the creation of the future: lines 86-135.
DiagCall(c, rounds) ==
    /\ d_pc[c] = "idle"
    /\ \E r \in rounds, m \in BOOLEAN :
          LET o == ApprovalCheckingDiagnostic_aux(r[1], r[2], r[3])
          IN  /\ d_base' = [d_base EXCEPT ![c] = r[1]]
              /\ d_best' = [d_best EXCEPT ![c] = r[2]]
              /\ d_cur' = [d_cur EXCEPT ![c] = r[3]]
              /\ d_metric' = [d_metric EXCEPT ![c] = m]
              /\ d_target' = [d_target EXCEPT ![c] = o.res]
              /\ d_pc' = [d_pc EXCEPT ![c] = IF o.res = Panic THEN "panicked" ELSE "created"]
    /\ UNCHANGED <<fault, pvars, fvars, d_slot, overseer, d_lag, d_observed, d_ret>>

\* The future's first part: the oneshot channel is created and the
\* ApprovedAncestor message sent (lines 138-144).
DiagSend(c) ==
    /\ d_pc[c] = "created"
    /\ d_slot' = [d_slot EXCEPT ![c] = Slot("open", None)]
    /\ overseer' = overseer \cup
            {[best_hash |-> d_best[c].hash, base_number |-> d_base[c].number, tx |-> c]}
    /\ d_pc' = [d_pc EXCEPT ![c] = "awaiting"]
    /\ UNCHANGED <<fault, pvars, fvars, d_base, d_best, d_cur, d_metric, d_target,
                   d_lag, d_observed, d_ret>>

\* The approval-checking subsystem handles a message and answers on its sender.
ApprovalReply ==
    \E msg \in overseer :
        \E v \in Replies(msg.tx) :
            /\ overseer' = overseer \ {msg}
            /\ d_slot' = [d_slot EXCEPT ![msg.tx] = Slot("sent", v)]
            /\ UNCHANGED <<fault, pvars, fvars, d_pc, d_base, d_best, d_cur, d_metric,
                           d_target, d_lag, d_observed, d_ret>>

\* The approval-checking subsystem drops a message's sender without answering.
ApprovalDrop ==
    \E msg \in overseer :
        /\ overseer' = overseer \ {msg}
        /\ d_slot' = [d_slot EXCEPT ![msg.tx] = Slot("closed", None)]
        /\ UNCHANGED <<fault, pvars, fvars, d_pc, d_base, d_best, d_cur, d_metric,
                       d_target, d_lag, d_observed, d_ret>>

\* A faulty variant: the call takes the reply from whichever channel has one.
vote_from_any_channel(c) ==
    IF \E x \in Calls : d_slot[x].state = "sent"
    THEN d_slot[CHOOSE x \in Calls : d_slot[x].state = "sent"].value
    ELSE None

\* rx.await.ok().and_then(|v| v) (line 146)
approval_checking_subsystem_vote(c) ==
    IF d_slot[c].state = "sent" THEN d_slot[c].value ELSE None

\* The future's second part (lines 146-165), resolving to `returned`.
DiagComplete(c, returned) ==
    /\ d_pc[c] = "awaiting"
    /\ d_slot[c].state \in {"sent", "closed"}
    /\ LET vote == approval_checking_subsystem_vote(c)
           best_number == d_best[c].number
           base_number == d_base[c].number
       IN  \E lag \in u32_sub(best_number,
                               IF vote.tag = "Some" THEN vote.number ELSE base_number) :
              IF lag.panic
              THEN /\ d_pc' = [d_pc EXCEPT ![c] = "panicked"]
                   /\ UNCHANGED <<d_lag, d_observed, d_ret>>
              ELSE /\ d_pc' = [d_pc EXCEPT ![c] = "done"]
                   /\ d_lag' = [d_lag EXCEPT ![c] = lag.value]
                   /\ d_observed' = [d_observed EXCEPT ![c] =
                            IF d_metric[c] THEN Append(@, lag.value) ELSE @]
                   /\ d_ret' = [d_ret EXCEPT ![c] = returned]
    /\ UNCHANGED <<fault, pvars, fvars, d_base, d_best, d_cur, d_metric, d_target,
                   d_slot, overseer>>

\* A faulty variant: the approval-checking vote, when there is one, is returned.
DiagRecv_approved_vote(c) ==
    DiagComplete(c, IF approval_checking_subsystem_vote(c).tag = "Some"
                    THEN approval_checking_subsystem_vote(c)
                    ELSE d_target[c])

DiagRecv(c) == DiagComplete(c, d_target[c])

InitDiag ==
    /\ fault \in Faults
    /\ DiagIdle
    /\ pause_at = 0
    /\ pause_for = 0
    /\ finalized = Genesis
    /\ PauseIdle
    /\ ResolveIdle
    /\ f_target_number = 0
    /\ f_header = Genesis

\* One call of the diagnostic rule, over all the rounds.
NextDiag ==
    \/ DiagCall("a", DiagRounds)
    \/ DiagSend("a")
    \/ ApprovalReply
    \/ ApprovalDrop
    \/ DiagRecv("a")

SpecDiag == InitDiag /\ [][NextDiag]_vars

\* The executor keeps polling the future the call returned: a send that can be
\* made and a receive that can complete are eventually made. What the
\* approval-checking subsystem does with a message, and when, is up to it.
SpecDiagFair ==
    /\ SpecDiag
    /\ WF_vars(DiagSend("a"))
    /\ WF_vars(DiagRecv("a"))

\* Two calls of the diagnostic rule, interleaved.
NextPair ==
    \/ \E c \in Calls : DiagCall(c, PairRounds)
    \/ \E c \in Calls : DiagSend(c)
    \/ ApprovalReply
    \/ ApprovalDrop
    \/ \E c \in Calls : DiagRecv(c)

SpecPair == InitDiag /\ [][NextPair]_vars

\* ------------------------------------------------------ find_target alone
\* find_target applied to a stored header and a block number.
GapHeaders == {Header(GapHash(n)) : n \in GapStep..MaxPauseNumber}

ResolveHeaders == PauseHeaders \cup DiagHeaders \cup GapHeaders

ResolveNumbers == (0..MaxPauseNumber) \cup DiagNumbers

InitResolve ==
    /\ fault \in Faults
    /\ f_target_number \in ResolveNumbers
    /\ f_header \in ResolveHeaders
    /\ ResolveIdle
    /\ pause_at = 0
    /\ pause_for = 0
    /\ finalized = Genesis
    /\ PauseIdle
    /\ DiagIdle

Resolve ==
    /\ f_pc = "idle"
    /\ f_out' = find_target(f_target_number, f_header)
    /\ f_pc' = IF f_out'.res = Panic THEN "panicked" ELSE "returned"
    /\ UNCHANGED <<fault, pvars, dvars, f_target_number, f_header>>

NextResolve == Resolve

SpecResolve == InitResolve /\ [][NextResolve]_vars

\* --------------------------------------------- properties of the pause rule
PauseCalled == p_pc # "idle"
PauseActive ==
    /\ p_cur.number > pause_at
    /\ p_best.number <= pause_at + pause_for

\* C1 (as claimed): in a run of rounds that starts with base.number < pause_at,
\* base.number does not exceed pause_at in any round whose best_target.number
\* is <= pause_at + pause_for, and once base is the block at height pause_at a
\* round with best_target.number <= pause_at + pause_for leaves it the base.
C1_PauseFreeze ==
    /\ []((PauseCalled /\ p_best.number <= pause_at + pause_for)
            => p_base.number <= pause_at)
    /\ [][(/\ finalized.number = pause_at
           /\ p_best'.number <= pause_at + pause_for
           /\ p_pc' = "returned")
            => finalized' = finalized]_vars

\* C2: a call with current_target.number <= pause_at returns None, whatever
\* base and best_target are, and makes no backend lookup.
C2_BeforePauseNoOverride ==
    (PauseCalled /\ p_cur.number <= pause_at)
        => (p_pc = "returned" /\ p_ret = None /\ p_lookups = 0)

C2_Witness ==
    /\ p_pc = "returned"
    /\ pause_at > 0
    /\ p_cur.number = pause_at
    /\ p_best.number > pause_at + pause_for
    /\ p_base.number < pause_at
    /\ p_ret = None

\* C3: in a sequence of calls whose best_target.number never decreases, a call
\* with best_target.number > pause_at + pause_for returns None, and so does
\* every call after it.
C3_ExpiryPermanent ==
    /\ [](PauseCalled /\ p_best.number > pause_at + pause_for
            => p_pc = "returned" /\ p_ret = None)
    /\ [][(/\ PauseCalled
           /\ p_best.number > pause_at + pause_for
           /\ p_best'.number >= p_best.number)
            => (p_pc' = "returned" /\ p_ret' = None)]_vars

C3_Witness ==
    /\ p_pc = "returned"
    /\ p_best.number > pause_at + pause_for
    /\ p_cur.number > pause_at
    /\ p_base.number >= pause_at
    /\ p_ret = None

\* C4: pause active (current_target.number > pause_at and best_target.number <=
\* pause_at + pause_for, inclusive) and base.number >= pause_at: the override is
\* exactly (base.hash, base.number).
C4_FinalizedPauseBlockKept ==
    (PauseCalled /\ PauseActive /\ p_base.number >= pause_at)
        => (p_pc = "returned" /\ p_ret = Some(p_base.hash, p_base.number))

C4_Witness ==
    /\ p_pc = "returned"
    /\ pause_for > 0
    /\ p_cur.number > pause_at
    /\ p_best.number = pause_at + pause_for
    /\ p_base.number = pause_at
    /\ p_ret = Some(p_base.hash, pause_at)

\* C5 (as claimed): pause active and base.number < pause_at: the override is
\* (h, pause_at), h the hash of current_target's ancestor at height pause_at.
C5_AncestorOverride ==
    (p_pc = "returned" /\ PauseActive /\ p_base.number < pause_at)
        => p_ret = Some(AncestorAt(p_cur.hash, pause_at), pause_at)

\* C6 (as claimed): while the pause is active and base is not above
\* current_target or best_target, an override (h, n) has
\* base.number <= n <= pause_at.
C6_OverrideInRange ==
    (/\ p_pc = "returned"
     /\ PauseActive
     /\ p_base.number <= p_cur.number
     /\ p_base.number <= p_best.number
     /\ p_ret.tag = "Some")
        => (p_base.number <= p_ret.number /\ p_ret.number <= pause_at)

\* C6 (amended): under the same conditions an override (h, n) has
\* base.number <= n, and n <= pause_at when base.number <= pause_at, and
\* n = base.number when base.number > pause_at.
C6_OverrideInRangeAmended ==
    (/\ p_pc = "returned"
     /\ PauseActive
     /\ p_base.number <= p_cur.number
     /\ p_base.number <= p_best.number
     /\ p_ret.tag = "Some")
        => /\ p_base.number <= p_ret.number
           /\ p_base.number <= pause_at => p_ret.number <= pause_at
           /\ p_base.number > pause_at => p_ret.number = p_base.number

C6_Witness ==
    /\ p_pc = "returned"
    /\ PauseActive
    /\ p_base.number < pause_at
    /\ p_base.number <= p_best.number
    /\ p_lookups > 0
    /\ p_ret.tag = "Some"
    /\ p_ret.number = pause_at


\* ---------------------------------------- properties of the diagnostic rule
\* C7: with base.number <= current_target.number and base.number <=
\* best_target.number, the number n of the returned target is in
\* [base.number, current_target.number], is <= best_target.number - 50 when that
\* is >= base.number, and equals
\* max(base.number, min(best_target.number - 50, current_target.number)).
C7_DiagTargetRange ==
    \A c \in Calls :
        (/\ d_pc[c] = "done"
         /\ d_ret[c].tag = "Some"
         /\ d_base[c].number <= d_cur[c].number
         /\ d_base[c].number <= d_best[c].number)
            => LET n == d_ret[c].number
                   delayed == d_best[c].number - DIAGNOSTIC_GRANDPA_DELAY
               IN  /\ d_base[c].number <= n
                   /\ n <= d_cur[c].number
                   /\ delayed >= d_base[c].number => n <= delayed
                   /\ n = Max(d_base[c].number, Min(delayed, d_cur[c].number))

C7_Witness ==
    \E c \in Calls :
        /\ d_pc[c] = "done"
        /\ d_ret[c].tag = "Some"
        /\ d_base[c].number < d_ret[c].number
        /\ d_ret[c].number < d_cur[c].number
        /\ d_ret[c].number = d_best[c].number - DIAGNOSTIC_GRANDPA_DELAY

\* C8 (as claimed): every call that completes returns an override (Some),
\* whatever the header backend and the approval-checking subsystem answer.
C8_AlwaysRestricts ==
    \A c \in Calls : d_pc[c] = "done" => d_ret[c].tag = "Some"

\* C9: two calls with the same base, best_target and current_target over the
\* same header store return the same vote target, whatever the
\* approval-checking subsystem did with either request and whether or not a
\* histogram is configured.
C9_NonInterference ==
    \A c1 \in Calls, c2 \in Calls :
        (/\ d_pc[c1] = "done"
         /\ d_pc[c2] = "done"
         /\ d_base[c1] = d_base[c2]
         /\ d_best[c1] = d_best[c2]
         /\ d_cur[c1] = d_cur[c2])
            => d_ret[c1] = d_ret[c2]

C9_Witness ==
    /\ d_pc["a"] = "done"
    /\ d_pc["b"] = "done"
    /\ d_base["a"] = d_base["b"]
    /\ d_best["a"] = d_best["b"]
    /\ d_cur["a"] = d_cur["b"]
    /\ d_metric["a"] # d_metric["b"]
    /\ d_slot["a"].state = "sent"
    /\ d_slot["a"].value.tag = "Some"
    /\ d_slot["b"].state = "closed"
    /\ d_ret["a"].tag = "Some"
    /\ d_ret["a"] = d_ret["b"]

\* ------------------------------------------------ properties of find_target
\* Every header on the parent path of header hdr above block number n has its
\* parent stored (the backend returns it) with the number one less.
ParentsStored(hdr, n) ==
    \A k \in 1..(hdr.number - n) :
        LET child == NthParent(hdr.hash, k - 1)
            parent == parent_hash(child)
        IN  /\ backend_header(parent) = "ok"
            /\ number(parent) = number(child) - 1

\* C10: over a store in which each header's parent is stored with the number
\* one less, find_target(target_number, current_header) with target_number <=
\* current_header.number returns (h, target_number), h the hash of the header
\* reached from current_header along the parent links (current_header's own
\* hash when the numbers are equal).
C10_ResolverResult ==
    (/\ f_pc # "idle"
     /\ f_target_number <= f_header.number
     /\ ParentsStored(f_header, f_target_number))
        => /\ f_pc = "returned"
           /\ f_out.res = Some(AncestorAt(f_header.hash, f_target_number), f_target_number)

C10_Witness ==
    /\ f_pc = "returned"
    /\ f_header.hash = ForkHash(f_header.number)
    /\ f_target_number > ForkAt
    /\ f_target_number + 2 <= f_header.number
    /\ fault.kind = "err"
    /\ f_out.lookups = f_header.number - f_target_number
    /\ f_out.res = Some(ForkHash(f_target_number), f_target_number)

\* The backward walk of find_target(f_target_number, f_header) looks up the
\* header the backend does not return: f_header is above target_number, and
\* that header is its parent or lies on the parent's path, not below
\* f_target_number.
WalkMeetsFault ==
    /\ fault.kind # "ok"
    /\ f_header.number > f_target_number
    /\ \/ f_header.parent_hash = fault.hash
       \/ /\ number(f_header.parent_hash) > number(fault.hash)
          /\ number(fault.hash) >= f_target_number
          /\ AncestorAt(f_header.parent_hash, number(fault.hash)) = fault.hash

\* The walk comes to a header with a number below f_target_number: it starts
\* at one, or the parent of the header it starts at is one.
WalkBelowTarget ==
    \/ f_header.number < f_target_number
    \/ /\ f_header.number > f_target_number
       /\ number(f_header.parent_hash) < f_target_number
       /\ backend_header(f_header.parent_hash) = "ok"

\* C11 (as claimed): when a parent lookup of the walk does not produce the
\* header (Ok(None) or Err), or the walk is at a number below target_number,
\* find_target panics: it returns neither an override nor None.
C11_MissingAncestorFatal ==
    (f_pc # "idle" /\ (WalkBelowTarget \/ WalkMeetsFault))
        => f_pc = "panicked"

\* C12 (as claimed): a call that awaits the approval-checking subsystem's reply
\* completes with its vote target unless the reply arrives: a request that is
\* never answered does not keep the call from returning.
C12_NeverBlocks ==
    (d_pc["a"] = "awaiting")
        ~> (d_pc["a"] = "done" \/ d_slot["a"].state = "sent")

\* C13 (as claimed): in a completed call the lag is best_target.number - n when
\* the reply is Some((hash, n)) and best_target.number - base.number when it is
\* None or the channel was closed; the histogram, when there is one, has got
\* exactly that value once, and nothing is recorded when there is none.
C13_LagValue ==
    \A c \in Calls :
        d_pc[c] = "done"
            => LET vote == approval_checking_subsystem_vote(c)
                   lag == d_best[c].number
                            - (IF vote.tag = "Some" THEN vote.number ELSE d_base[c].number)
               IN  /\ d_lag[c] = u32(lag)
                   /\ d_observed[c] = IF d_metric[c] THEN <<u32(lag)>> ELSE <<>>

\* The requests of call c that the approval-checking subsystem has not handled.
Requests(c) == {msg \in overseer : msg.tx = c}

\* The lag call c gets from the reply on its own channel and its own numbers.
OwnLag(c) ==
    LET n == IF d_slot[c].state = "sent" /\ d_slot[c].value.tag = "Some"
             THEN d_slot[c].value.number
             ELSE d_base[c].number
    IN  IF d_best[c].number >= n THEN u32(d_best[c].number - n)
        ELSE wrapping_sub(d_best[c].number, n)

\* C14: with two calls interleaved, each call that has sent has made exactly
\* one request, ApprovedAncestor(its best_target.hash, its base.number) with its
\* own channel, which is pending until the channel has a reply or is closed;
\* a channel gets at most one reply; and the lag a completed call has and
\* records is the one of its own reply and its own best and base numbers.
C14_Correlation ==
    /\ [](\A c \in Calls :
            /\ d_pc[c] \in {"idle", "created"}
                => (Requests(c) = {} /\ d_slot[c].state = "none")
            /\ d_pc[c] \in {"awaiting", "done"}
                => IF d_slot[c].state = "open"
                   THEN Requests(c) = {[best_hash |-> d_best[c].hash,
                                        base_number |-> d_base[c].number,
                                        tx |-> c]}
                   ELSE Requests(c) = {} /\ d_slot[c].state \in {"sent", "closed"}
            /\ d_pc[c] = "done"
                => /\ d_lag[c] = OwnLag(c)
                   /\ d_observed[c] = IF d_metric[c] THEN <<OwnLag(c)>> ELSE <<>>)
    /\ [][\A c \in Calls :
            d_slot[c].state \in {"sent", "closed"} => d_slot'[c] = d_slot[c]]_vars

C14_Witness ==
    /\ d_pc["a"] = "done"
    /\ d_pc["b"] = "done"
    /\ d_best["a"] # d_best["b"]
    /\ d_slot["a"].state = "sent"
    /\ d_slot["a"].value = Some(d_best["a"].hash, d_best["a"].number)
    /\ d_slot["b"].state = "sent"
    /\ d_slot["b"].value = Some(d_best["b"].hash, d_base["b"].number)
    /\ d_lag["a"] = u32(0)
    /\ d_lag["b"] = u32(d_best["b"].number)
    /\ d_observed["a"] = <<u32(0)>>
    /\ d_observed["b"] = <<d_lag["b"]>>

C16_WalkTerminates ==
    (f_pc # "idle" /\ f_target_number <= f_header.number)
        => /\ f_out.res # Running
           /\ f_out.lookups <= f_header.number - f_target_number

C16_Witness ==
    /\ f_pc = "returned"
    /\ f_out.res.tag = "Some"
    /\ f_header.number >= DIAGNOSTIC_GRANDPA_DELAY
    /\ f_target_number = 0
    /\ f_out.lookups = f_header.number

\* C17: with base, current_target and best_target on one ancestry path (base
\* not above current_target), an override (h, n) of the pause rule has
\* n <= current_target.number and h is the hash of the header with number n on
\* current_target's parent path (current_target itself when n is its number):
\* it is base or an ancestor of current_target, never a block ahead of
\* current_target or off its chain.
C17_OverrideOnPath ==
    (/\ p_pc = "returned"
     /\ p_ret.tag = "Some"
     /\ RoundBounds(p_base, p_best, p_cur)
     /\ p_base.number <= p_cur.number)
        => /\ p_ret.number <= p_cur.number
           /\ p_ret.hash = AncestorAt(p_cur.hash, p_ret.number)
           /\ \/ p_ret = Some(p_base.hash, p_base.number)
              \/ p_ret.number < p_cur.number

C17_Witness ==
    /\ p_pc = "returned"
    /\ pause_at > ForkAt
    /\ p_base.number < pause_at
    /\ p_cur.hash = ForkHash(p_cur.number)
    /\ p_cur.number > pause_at
    /\ p_best.number > p_cur.number
    /\ p_ret = Some(ForkHash(pause_at), pause_at)

\* C18 (as claimed): a completed call with best_target.number <= base.number +
\* 50 (so every call with best_target.number < 50) returns the override
\* (base.hash, base.number): the delay yields no number below base, and the
\* gadget's vote stays at base until the head is more than 50 blocks past it.
C18_ShortChainKeepsBase ==
    \A c \in Calls :
        (/\ d_pc[c] = "done"
         /\ d_best[c].number <= d_base[c].number + DIAGNOSTIC_GRANDPA_DELAY)
            => d_ret[c] = Some(d_base[c].hash, d_base[c].number)

\* The call got to the subtraction of lines 149-152. It underflowed when it
\* panicked or left a value that is no difference of best_number and a number
\* from 0 to best_number.
LagComputed(c) ==
    /\ d_pc[c] \in {"done", "panicked"}
    /\ d_slot[c].state \in {"sent", "closed"}

LagUnderflowed(c) ==
    /\ LagComputed(c)
    /\ \/ d_pc[c] = "panicked"
       \/ d_lag[c] \notin {u32(d) : d \in 0..d_best[c].number}

\* C19: in a call with base.number <= best_target.number, a reply Some((hash,
\* n)) with base.number <= n <= best_target.number gives a lag in
\* [0, best_target.number - base.number], no more than the lag without a
\* reply; the subtraction underflows only with a reply whose n is above
\* best_target.number.
C19_LagNoUnderflow ==
    \A c \in Calls :
        (LagComputed(c) /\ d_base[c].number <= d_best[c].number)
            => LET v == d_slot[c].value
                   replied == d_slot[c].state = "sent" /\ v.tag = "Some"
               IN  /\ (/\ replied
                       /\ d_base[c].number <= v.number
                       /\ v.number <= d_best[c].number)
                        => /\ d_pc[c] = "done"
                           /\ d_lag[c] = u32(d_best[c].number - v.number)
                           /\ d_lag[c] \in {u32(d) : d \in
                                    0..(d_best[c].number - d_base[c].number)}
                   /\ ~replied
                        => /\ d_pc[c] = "done"
                           /\ d_lag[c] = u32(d_best[c].number - d_base[c].number)
                   /\ LagUnderflowed(c)
                        => (replied /\ v.number > d_best[c].number)

C19_Witness ==
    \E c \in Calls :
        /\ d_pc[c] = "done"
        /\ d_slot[c].state = "sent"
        /\ d_slot[c].value.tag = "Some"
        /\ d_base[c].number < d_slot[c].value.number
        /\ d_slot[c].value.number < d_best[c].number
        /\ d_lag[c] = u32(d_best[c].number - d_slot[c].value.number)
        /\ d_observed[c] = <<d_lag[c]>>

====
